---- MODULE Spec2Model ----
(***************************************************************************)
(* Pravaah: the Streamlit dashboards of the microplastic monitoring        *)
(* system.  The model covers the government "Complete Analysis Pipeline"   *)
(* (views/government.py) and the public "Upload & Detect" / "My Reports"   *)
(* tabs (views/citizen.py).                                                *)
(*                                                                         *)
(* Numbers with decimals are fixed point: index scores and water           *)
(* parameters in tenths (52.3 is 523), confidences in percent (0.85 is     *)
(* 85), dissolved-oxygen predictions and hour offsets in thousandths.      *)
(* A Python dict is a record; a local name that was never assigned is      *)
(* Unbound.                                                                *)
(***************************************************************************)
EXTENDS Integers, Sequences, FiniteSets, TLC

(***************************************************************************)
(* Dicts and locals                                                        *)
(***************************************************************************)
Unbound == [unbound |-> TRUE]

IsBound(v) == v # Unbound

Has(d, k) == k \in DOMAIN d

Get(d, k, default) == IF k \in DOMAIN d THEN d[k] ELSE default

EmptyMap == [t \in {} |-> 0]

\* sum of the values of a dict
RECURSIVE SumMap(_)
SumMap(d) ==
  IF DOMAIN d = {} THEN 0
  ELSE LET k == CHOOSE x \in DOMAIN d : TRUE
       IN  d[k] + SumMap([x \in DOMAIN d \ {k} |-> d[x]])

Put(d, k, v) == [x \in DOMAIN d \cup {k} |-> IF x = k THEN v ELSE d[x]]

RECURSIVE SumSeq(_)
SumSeq(s) ==
  IF Len(s) = 0 THEN 0
  ELSE IF Len(s) = 1 THEN s[1]
  ELSE LET h == Len(s) \div 2
       IN  SumSeq(SubSeq(s, 1, h)) + SumSeq(SubSeq(s, h + 1, Len(s)))

(***************************************************************************)
(* Stages and the installed collaborators                                  *)
(***************************************************************************)
YOLO == 1
RAMAN == 2
WQI == 3
FORECAST == 4
PINN == 5
TWIN == 6

Stages == 1..6

\* A collaborator module is importable and returns, importable and raises,
\* or not importable at all (the import statement raises).
Behaviours == {"ok", "raises", "missing"}

ImportError(i) == <<"No module named", i>>

CallError(i) == <<"collaborator raised", i>>

NameError == <<"local variable referenced before assignment", "wqi_features">>

KeyError(k) == <<"KeyError", k>>

NoException == << >>

(***************************************************************************)
(* Bounds of the explored inputs                                           *)
(***************************************************************************)
\* number of random draws explored for each randomized fallback
MaxDraws == 2

(***************************************************************************)
(* Uploaded images.  An image is known by what the detector finds in it.   *)
(***************************************************************************)
NoImage == [kind |-> "none"]

CorruptImage == [kind |-> "corrupt"]

Sample(n) == [kind |-> "sample", particles |-> n]

GovImages == {Sample(150), CorruptImage}

\* particle counts around the risk thresholds 50 and 100
SampleCounts == {0, 1, 20, 50, 51, 75, 100, 101, 150}

CitizenImages == {Sample(n) : n \in SampleCounts} \cup {CorruptImage}

\* predict_image_with_viz: particle count, type histogram summing to the
\* count, overlay; for an unreadable image a dict carrying only 'error'
\* (views/citizen.py tests "'error' not in result").
ParticleTypes(n) ==
  IF n = 0 THEN EmptyMap
  ELSE IF n = 1 THEN [t \in {"fiber"} |-> 1]
  ELSE [t \in {"fiber", "fragment"} |-> IF t = "fiber" THEN n - (n \div 3) ELSE n \div 3]

\* every particle of the explored samples is detected with confidence 0.80
SampleConfidence == 80

predict_image_with_viz(img, conf_threshold, user_level) ==
  IF img.kind = "sample"
  THEN LET n == IF conf_threshold <= SampleConfidence THEN img.particles ELSE 0
       IN  [count |-> n,
            particle_types |-> ParticleTypes(n),
            avg_confidence |-> SampleConfidence,
            annotated_image |-> "overlay"]
  ELSE [error |-> "cannot read image"]

(***************************************************************************)
(* Values returned by the other collaborators when they return             *)
(***************************************************************************)
\* the detectable materials
Polymers == {"PE", "PP", "PS", "PET", "PVC", "PMMA"}

predict_polymer ==
  [polymer |-> "PET", confidence |-> 92,
   all_probabilities |-> [PE |-> 3, PP |-> 2, PS |-> 2, PET |-> 92, PVC |-> 1, PMMA |-> 0]]

WqiClassification(score) ==
  IF score > 750 THEN "Good" ELSE IF score > 500 THEN "Moderate" ELSE "Poor"

\* dissolved-oxygen readings (tenths of mg/L) of the explored water samples
DOValues == {30, 40, 75, 120}

\* the widget defaults of the other eleven measurements, and the readings of
\* a polluted sample; the samples low in oxygen are the polluted ones
DefaultMeasurements ==
  [temperature |-> 250, ph |-> 70, turbidity |-> 250, conductivity |-> 4500,
   bod |-> 100, cod |-> 350, tds |-> 3000, nitrate |-> 85, phosphate |-> 21,
   chloride |-> 850, fecal_coliform |-> 1500]

PollutedMeasurements ==
  [temperature |-> 312, ph |-> 58, turbidity |-> 800, conductivity |-> 12000,
   bod |-> 300, cod |-> 1200, tds |-> 9000, nitrate |-> 250, phosphate |-> 64,
   chloride |-> 2500, fecal_coliform |-> 40000]

MeasuredWith(do) == IF do < 50 THEN PollutedMeasurements ELSE DefaultMeasurements

\* the scorer is a function of the parameter vector; the explored samples
\* score 50.0, 50.5, 75.0 and 98.0
predict_wqi(features) ==
  LET score == CASE features.dissolved_oxygen <= 30 -> 500
                 [] features.dissolved_oxygen \in 31..60 -> 505
                 [] features.dissolved_oxygen \in 61..75 -> 750
                 [] OTHER -> 980
  IN  [wqi_score |-> score, classification |-> WqiClassification(score)]

\* index scores are tenths in 0..1000; the forecaster and the simulator keep
\* their points in this range
InRange(x) == IF x < 0 THEN 0 ELSE IF x > 1000 THEN 1000 ELSE x

HorizonForecast == 60

HorizonTwin == 30

forecast_wqi(score) ==
  [forecast_df |-> [Date |-> [i \in 1..HorizonForecast |-> i],
                    Predicted_WQI |-> [i \in 1..HorizonForecast |-> InRange(score + i)]]]

predict_dissolved_oxygen(features, hours) ==
  LET t == <<0, 24000, 48000, hours * 1000>>
      d == <<features.dissolved_oxygen * 100,
             features.dissolved_oxygen * 100 - 1000,
             features.dissolved_oxygen * 100 - 2000,
             features.dissolved_oxygen * 100 - 3000>>
  IN  [time_hours |-> t,
       do_predictions |-> d,
       mean_do |-> SumSeq(d) \div 4,
       critical_hours |-> SelectSeq(t, LAMBDA h :
                             \E k \in 1..4 : t[k] = h /\ d[k] < 4000)]

run_digital_twin_simulation(twin_params, days) ==
  LET traj == [i \in 1..days |->
                 InRange(twin_params.initial_wqi
                           - (twin_params.pollution_load \div 100) * i + 7 * i)]
      r == [days |-> [i \in 1..days |-> i - 1], wqi_trajectory |-> traj]
  IN  \* the report reads 'final_wqi' with a default: the explored simulator
      \* leaves the entry out for the sample that scores 50.5
      IF twin_params.initial_wqi = 505 THEN r ELSE Put(r, "final_wqi", traj[days])

(***************************************************************************)
(* Fallback values substituted by the except handlers of the pipeline      *)
(***************************************************************************)
YoloFallbackErrorOnly(e) == [error |-> e]

YoloFallbackStrayType(e) ==
  [count |-> 0, particle_types |-> [t \in {"fiber"} |-> 1], error |-> e]

YoloFallback(e) == [count |-> 0, particle_types |-> EmptyMap, error |-> e]

RamanFallbackUntagged(e) == [polymer |-> "PE", confidence |-> 85]

RamanFallback(e) == [polymer |-> "PE", confidence |-> 85, error |-> e]

WqiFallbackNoScore(e) == [classification |-> "Moderate", error |-> e]

WqiFallback(e) == [wqi_score |-> 523, classification |-> "Moderate", error |-> e]

\* np.random.randn(60) * 5, in tenths: draw 1 is all zeros, draw d > 1
\* alternates +-(15.0 / (d - 1)).
ForecastNoise(d, i) ==
  IF d = 1 THEN 0
  ELSE IF i % 2 = 1 THEN 150 \div (d - 1) ELSE 0 - (150 \div (d - 1))

ForecastFallbackShort(e, score, d) ==
  [forecast_df |-> [Date |-> [i \in 1..(HorizonForecast - 1) |-> i - 1],
                    Predicted_WQI |-> [i \in 1..(HorizonForecast - 1) |->
                                          score + ForecastNoise(d, i)]],
   error |-> e]

ForecastFallback(e, score, d) ==
  [forecast_df |-> [Date |-> [i \in 1..HorizonForecast |-> i - 1],
                    Predicted_WQI |-> [i \in 1..HorizonForecast |->
                                          score + ForecastNoise(d, i)]],
   error |-> e]

\* 2000 * sin(t / 12) at the 100 points t = 72 k / 99 of np.linspace(0, 72, 100)
SinTable ==
  <<0, 121, 242, 362, 480, 597, 711, 823, 932, 1038, 1139, 1237, 1330, 1418,
    1501, 1578, 1649, 1715, 1774, 1827, 1873, 1912, 1944, 1969, 1987, 1997,
    2000, 1996, 1984, 1965, 1939, 1906, 1866, 1819, 1765, 1705, 1638, 1566,
    1487, 1404, 1315, 1221, 1123, 1021, 915, 805, 693, 578, 461, 342, 222,
    101, -20, -141, -262, -381, -499, -616, -730, -841, -950, -1055, -1156,
    -1252, -1344, -1432, -1514, -1590, -1661, -1725, -1783, -1835, -1880,
    -1918, -1948, -1972, -1989, -1998, -2000, -1994, -1982, -1961, -1934,
    -1900, -1858, -1810, -1755, -1694, -1627, -1553, -1474, -1389, -1300,
    -1205, -1106, -1003, -897, -787, -674, -559>>

PinnPoints == 100

HorizonPinn == 72

CriticalDO == 4000

\* np.linspace(0, 72, 100), thousandths of an hour
TimeHours == [k \in 1..PinnPoints |-> (HorizonPinn * 1000 * (k - 1)) \div (PinnPoints - 1)]

\* dissolved_oxygen + sin(t/12) * 2 - t/72 * 3, thousandths of mg/L
DoPred(do) ==
  [k \in 1..PinnPoints |->
     do * 100 + SinTable[k] - (3000 * (k - 1)) \div (PinnPoints - 1)]

PinnFallbackInclusive(e, do) ==
  LET p == DoPred(do)
  IN  [time_hours |-> TimeHours,
       do_predictions |-> p,
       mean_do |-> SumSeq(p) \div PinnPoints,
       critical_hours |-> SelectSeq(TimeHours, LAMBDA h :
                             \E k \in 1..PinnPoints : TimeHours[k] = h /\ p[k] <= CriticalDO),
       error |-> e]

PinnFallback(e, do) ==
  LET p == DoPred(do)
  IN  [time_hours |-> TimeHours,
       do_predictions |-> p,
       mean_do |-> SumSeq(p) \div PinnPoints,
       critical_hours |-> SelectSeq(TimeHours, LAMBDA h :
                             \E k \in 1..PinnPoints : TimeHours[k] = h /\ p[k] < CriticalDO),
       error |-> e]

\* np.random.randn(30), in tenths: the odd draws sum to +2.5 * (d + 1) / 2,
\* the even draws to -2.5 * d / 2, so that twice the sum meets +-5.0.
TwinNoise(d, i) ==
  LET m == (d + 1) \div 2
      x == IF i > 10 THEN 0 ELSE IF i % 2 = 1 THEN 10 * m ELSE 0 - 5 * m
  IN  IF d % 2 = 1 THEN x ELSE 0 - x

RECURSIVE CumSum(_, _)
CumSum(d, i) == IF i = 0 THEN 0 ELSE CumSum(d, i - 1) + TwinNoise(d, i)

TwinFallback(e, score, d) ==
  LET wqi_sim == [i \in 1..HorizonTwin |-> score + CumSum(d, i) * 2]
  IN  [days |-> [i \in 1..HorizonTwin |-> i - 1],
       wqi_trajectory |-> wqi_sim,
       final_wqi |-> wqi_sim[HorizonTwin],
       error |-> e]

(***************************************************************************)
(* State                                                                   *)
(***************************************************************************)
VARIABLES
  models,            \* which collaborator modules are installed and work
  session_state,     \* st.session_state
  role,              \* the sidebar radio
  uploaded,          \* government file uploader
  dissolved_oxygen,  \* government number input, tenths of mg/L
  measured,          \* the other eleven number inputs, tenths
  pc,                \* position of the government script run
  exc,               \* exception caught by the current except clause
  calls,             \* collaborator invocations in the current run
  args,              \* arguments of the last invocation of each collaborator
  warned,            \* stages for which st.error / st.warning was shown
  wqi_features,      \* locals of show_government_dashboard
  yolo_result,
  raman_result,
  wqi_result,
  forecast_result,
  pinn_result,
  twin_result,
  report,            \* sections of the report on the page
  prev_tags,         \* stage tags of the previously completed run
  uploaded_file,     \* public file uploader
  cit_page,          \* what the last public script run drew
  clock,             \* datetime.now(), in script runs
  widgets,           \* values of the other widgets
  app_page           \* what the last script run drew apart from the above

govLocals == <<wqi_features, yolo_result, raman_result, wqi_result,
               forecast_result, pinn_result, twin_result>>

govVars == <<uploaded, dissolved_oxygen, measured, pc, exc, calls, args, warned, govLocals,
             report, prev_tags>>

citVars == <<uploaded_file, cit_page, clock>>

appVars == <<widgets, app_page>>

vars == <<models, role, session_state, govVars, citVars, appVars>>

None == [none |-> TRUE]

\* the sixteen features handed to the scorer and the physics predictor
WqiFeaturesSwapped(do) ==
  [temperature |-> measured.temperature, ph |-> measured.ph,
   dissolved_oxygen |-> do,
   conductivity |-> measured.conductivity, turbidity |-> measured.tds,
   tds |-> measured.turbidity, bod |-> measured.bod, cod |-> measured.cod,
   nitrate |-> measured.nitrate, phosphate |-> measured.phosphate,
   fecal_coliform |-> measured.fecal_coliform,
   total_coliform |-> measured.fecal_coliform * 8,
   chloride |-> measured.chloride, fluoride |-> 8,
   hardness |-> 1800, alkalinity |-> 1200]

WqiFeatures(do) ==
  [temperature |-> measured.temperature, ph |-> measured.ph,
   dissolved_oxygen |-> do,
   conductivity |-> measured.conductivity, turbidity |-> measured.turbidity,
   tds |-> measured.tds, bod |-> measured.bod, cod |-> measured.cod,
   nitrate |-> measured.nitrate, phosphate |-> measured.phosphate,
   fecal_coliform |-> measured.fecal_coliform,
   total_coliform |-> measured.fecal_coliform * 8,
   chloride |-> measured.chloride, fluoride |-> 8,
   hardness |-> 1800, alkalinity |-> 1200]

(***************************************************************************)
(* app.py: the role radio sets the threshold and routes to a dashboard     *)
(***************************************************************************)
Public == "Public User"

Government == "Government Official"

Researcher == "Researcher"

Admin == "Admin Panel"

Roles == {Public, Government, Researcher, Admin}

RoleConfidenceFlat(r) == 35

\* "Public" in role / elif "Government" in role / elif "Researcher" in role
\* / else, in percent
RoleConfidence(r) ==
  IF r = Public THEN 50
  ELSE IF r = Government THEN 35
  ELSE IF r = Researcher THEN 10
  ELSE 10

\* the session state a script run of app.py leaves for a first run
FirstSession(r) ==
  [current_analysis |-> None,
   user_authenticated |-> FALSE,
   username |-> None,
   confidence_threshold |-> RoleConfidence(r),
   user_role |-> r]

\* the view module and function app.py imports for each role
DashboardOf(r) ==
  IF r = Public THEN "citizen"
  ELSE IF r = Government THEN "government"
  ELSE IF r = Researcher THEN "researcher"
  ELSE "admin"

NameErrorTab4 == <<"name is not defined", "tab4">>

\* executing a view module on import: views/government.py ends with a
\* "with tab4:" block at module level, where tab4 is not defined
ImportRaises(dashboard) == dashboard = "government"

DefaultLocations == <<"Delhi", "Kanpur", "Mumbai">>

NoSpectrum == [kind |-> "none"]

DefaultWidgets == [selected_locations |-> DefaultLocations,
                   uploaded_csv |-> NoSpectrum,
                   use_sample |-> FALSE]

\* the locations of the "Advanced Analytics" multiselect
Locations == {"Delhi", "Kanpur", "Ahmedabad", "Bangalore", "Mumbai", "Chennai"}

\* bound of the number of locations selected at once
MaxSelected == 3

\* a selection lists distinct locations in the order they were picked
Selections ==
  {sel \in UNION {[1..n -> Locations] : n \in 0..MaxSelected} :
     \A a, b \in DOMAIN sel : a # b => sel[a] # sel[b]}

UnboundLocalError(name) == <<"local variable referenced before assignment", name>>

\* tab 3 of show_government_dashboard: comp_df and fig_comp are assigned
\* under "if selected_locations:", while the last two traces, the chart, the
\* trend title and the summary are drawn after it
AnalyticsTab(selected_locations) ==
  LET comp_df == IF selected_locations # << >>
                 THEN [Location |-> selected_locations] ELSE Unbound
      fig_comp == IF selected_locations # << >>
                  THEN [traces |-> <<"WQI", "Particles">>] ELSE Unbound
  IN  IF ~IsBound(fig_comp)
      THEN [view |-> "analytics", error |-> UnboundLocalError("fig_comp"),
            charts |-> << >>, trend_title |-> None, summary |-> None]
      ELSE [view |-> "analytics", error |-> NoException,
            charts |-> fig_comp.traces \o <<"DO", "BOD">>,
            trend_title |-> selected_locations[1],
            summary |-> comp_df.Location]

\* the page of a view function called directly, without app.py around it
HarnessPage(r) ==
  [harness |-> TRUE, dashboard |-> DashboardOf(r), error |-> NoException,
   footer |-> FALSE,
   content |-> IF r = Government THEN AnalyticsTab(DefaultLocations) ELSE None]

\* a script run of app.py with role r selected: the sidebar stores the
\* threshold and the role, then the role's view is imported and called, then
\* the footer is drawn
AppPage(r, content) ==
  IF ImportRaises(DashboardOf(r))
  THEN [harness |-> FALSE, dashboard |-> "none", error |-> NameErrorTab4,
        footer |-> FALSE, content |-> None]
  ELSE [harness |-> FALSE, dashboard |-> DashboardOf(r), error |-> NoException,
        footer |-> TRUE, content |-> content]

NoReport == [s \in {} |-> None]

NoTags == [run |-> FALSE]

BlankPage == [view |-> "blank"]

StageResult(i) ==
  CASE i = YOLO -> yolo_result
    [] i = RAMAN -> raman_result
    [] i = WQI -> wqi_result
    [] i = FORECAST -> forecast_result
    [] i = PINN -> pinn_result
    [] i = TWIN -> twin_result

\* the tag of a stage result: Degraded when it carries an 'error' reason
Degraded(r) == Has(r, "error")

InitBase(r) ==
  /\ role = r
  /\ models \in [Stages -> Behaviours]
  /\ session_state = FirstSession(r)
  /\ uploaded \in GovImages \cup {NoImage}
  /\ dissolved_oxygen \in DOValues
  /\ measured = MeasuredWith(dissolved_oxygen)
  /\ pc = [at |-> "idle", stage |-> 0]
  /\ exc = NoException
  /\ calls = [i \in Stages |-> 0]
  /\ args = [i \in Stages |-> None]
  /\ warned = {}
  /\ wqi_features = Unbound
  /\ yolo_result = Unbound
  /\ raman_result = Unbound
  /\ wqi_result = Unbound
  /\ forecast_result = Unbound
  /\ pinn_result = Unbound
  /\ twin_result = Unbound
  /\ report = NoReport
  /\ prev_tags = NoTags
  /\ uploaded_file = NoImage
  /\ cit_page = BlankPage
  /\ clock = 0
  /\ widgets = DefaultWidgets

InitWith(r) ==
  /\ InitBase(r)
  /\ app_page = HarnessPage(r)

Init == InitWith(Government)

(***************************************************************************)
(* Script runs of the government dashboard                                 *)
(***************************************************************************)
\* the government dashboard is on the page
GovShown ==
  /\ session_state.user_role = Government
  /\ app_page.dashboard = "government"

\* Between script runs the page is at rest, showing what the last run drew.
At(a) == [at |-> a, stage |-> 0]

AtStage(a, i) == [at |-> a, stage |-> i]

AtRest == pc.at \in {"idle", "report", "no_image", "crashed"}

StageTags == [i \in Stages |-> Degraded(StageResult(i))]

\* Leaving a page that shows a completed report remembers that run's tags.
RememberTags ==
  IF pc = At("report")
  THEN [run |-> TRUE, tags |-> StageTags]
  ELSE prev_tags

\* Every script run starts show_government_dashboard afresh.
FreshRun ==
  /\ exc' = NoException
  /\ calls' = [i \in Stages |-> 0]
  /\ args' = [i \in Stages |-> None]
  /\ warned' = {}
  /\ wqi_features' = Unbound
  /\ yolo_result' = Unbound
  /\ raman_result' = Unbound
  /\ wqi_result' = Unbound
  /\ forecast_result' = Unbound
  /\ pinn_result' = Unbound
  /\ twin_result' = Unbound
  /\ report' = NoReport
  /\ prev_tags' = RememberTags

\* Any interaction other than the pipeline button re-executes the script
\* with the button false: the pipeline block is skipped.
Rerun ==
  /\ GovShown
  /\ AtRest
  /\ pc.at # "idle"
  /\ pc' = At("idle")
  /\ FreshRun
  /\ UNCHANGED <<models, role, session_state, uploaded, dissolved_oxygen, measured, citVars, appVars>>

ClickRunWithoutImage ==
  /\ GovShown
  /\ AtRest
  /\ pc' = AtStage("try", YOLO)
  /\ FreshRun
  /\ UNCHANGED <<models, role, session_state, uploaded, dissolved_oxygen, measured, citVars, appVars>>

\* st.button("Run Complete Pipeline"): the pipeline runs only with an image.
ClickRun ==
  /\ GovShown
  /\ AtRest
  /\ pc' = IF uploaded # NoImage THEN AtStage("try", YOLO) ELSE At("no_image")
  /\ FreshRun
  /\ UNCHANGED <<models, role, session_state, uploaded, dissolved_oxygen, measured, citVars, appVars>>

\* the threshold the pipeline passes to the detector, percent
GovThreshold == 35

Invoke(i, a) ==
  /\ calls' = [calls EXCEPT ![i] = @ + 1]
  /\ args' = [args EXCEPT ![i] = a]

RaiseAndRetry(i, e) ==
  /\ exc' = e
  /\ pc' = AtStage("try", i)

Raise(i, e) ==
  /\ exc' = e
  /\ pc' = AtStage("except", i)

AfterStageSkipsTwin(i) == IF i < PINN THEN AtStage("try", i + 1) ELSE At("render")

\* where the run continues once stage i has a value
AfterStage(i) == IF i < TWIN THEN AtStage("try", i + 1) ELSE At("render")

\* st.error / st.warning in an except clause
Warn(i) == warned' = warned \cup {i}

(***************************************************************************)
(* Step 1: YOLO detection                                                  *)
(***************************************************************************)
Try1 ==
  /\ pc = AtStage("try", YOLO)
  /\ IF models[YOLO] = "missing"
     THEN /\ Raise(YOLO, ImportError(YOLO))
          /\ UNCHANGED <<calls, args, yolo_result, session_state>>
     ELSE /\ Invoke(YOLO, [image |-> uploaded, conf_threshold |-> GovThreshold, user_level |-> "Government"])
          /\ IF models[YOLO] = "raises"
             THEN /\ Raise(YOLO, CallError(YOLO))
                  /\ UNCHANGED <<yolo_result, session_state>>
             ELSE /\ yolo_result' = predict_image_with_viz(uploaded, GovThreshold, "Government")
                  /\ session_state' = Put(session_state, "yolo_result", yolo_result')
                  /\ pc' = AfterStage(YOLO)
                  /\ exc' = NoException
  /\ UNCHANGED <<models, role, uploaded, dissolved_oxygen, measured, warned, wqi_features,
                 raman_result, wqi_result, forecast_result, pinn_result,
                 twin_result, report, prev_tags, citVars, appVars>>

Except1 ==
  /\ pc = AtStage("except", YOLO)
  /\ Warn(YOLO)
  /\ yolo_result' = YoloFallback(exc)
  /\ pc' = AfterStage(YOLO)
  /\ exc' = NoException
  /\ UNCHANGED <<models, role, session_state, uploaded, dissolved_oxygen, measured, calls, args,
                 wqi_features, raman_result, wqi_result, forecast_result,
                 pinn_result, twin_result, report, prev_tags, citVars, appVars>>

(***************************************************************************)
(* Step 2: Raman classification                                            *)
(***************************************************************************)
Try2 ==
  /\ pc = AtStage("try", RAMAN)
  /\ IF models[RAMAN] = "missing"
     THEN /\ Raise(RAMAN, ImportError(RAMAN))
          /\ UNCHANGED <<calls, args, raman_result, session_state>>
     ELSE /\ Invoke(RAMAN, [raman_spectrum |-> "np.random.rand(1024)"])
          /\ IF models[RAMAN] = "raises"
             THEN /\ Raise(RAMAN, CallError(RAMAN))
                  /\ UNCHANGED <<raman_result, session_state>>
             ELSE /\ raman_result' = predict_polymer
                  /\ session_state' = Put(session_state, "raman_result", raman_result')
                  /\ pc' = AfterStage(RAMAN)
                  /\ exc' = NoException
  /\ UNCHANGED <<models, role, uploaded, dissolved_oxygen, measured, warned, wqi_features,
                 yolo_result, wqi_result, forecast_result, pinn_result,
                 twin_result, report, prev_tags, citVars, appVars>>

Except2 ==
  /\ pc = AtStage("except", RAMAN)
  /\ Warn(RAMAN)
  /\ raman_result' = RamanFallback(exc)
  /\ pc' = AfterStage(RAMAN)
  /\ exc' = NoException
  /\ UNCHANGED <<models, role, session_state, uploaded, dissolved_oxygen, measured, calls, args,
                 wqi_features, yolo_result, wqi_result, forecast_result,
                 pinn_result, twin_result, report, prev_tags, citVars, appVars>>

(***************************************************************************)
(* Step 3: WQI prediction.  wqi_features is assigned inside the try block, *)
(* after the import.                                                       *)
(***************************************************************************)
Try3Cached ==
  /\ pc = AtStage("try", WQI)
  /\ IF models[WQI] = "missing"
     THEN /\ Raise(WQI, ImportError(WQI))
          /\ UNCHANGED <<calls, args, wqi_features, wqi_result, session_state>>
     ELSE /\ wqi_features' = WqiFeatures(dissolved_oxygen)
          /\ Invoke(WQI, [features |-> wqi_features'])
          /\ IF models[WQI] = "raises"
             THEN /\ Raise(WQI, CallError(WQI))
                  /\ UNCHANGED <<wqi_result, session_state>>
             ELSE /\ wqi_result' = IF Has(session_state, "wqi_result")
                                   THEN session_state.wqi_result
                                   ELSE predict_wqi(wqi_features')
                  /\ session_state' = Put(session_state, "wqi_result", wqi_result')
                  /\ pc' = AfterStage(WQI)
                  /\ exc' = NoException
  /\ UNCHANGED <<models, role, uploaded, dissolved_oxygen, measured, warned, yolo_result,
                 raman_result, forecast_result, pinn_result, twin_result,
                 report, prev_tags, citVars, appVars>>

Try3 ==
  /\ pc = AtStage("try", WQI)
  /\ IF models[WQI] = "missing"
     THEN /\ Raise(WQI, ImportError(WQI))
          /\ UNCHANGED <<calls, args, wqi_features, wqi_result, session_state>>
     ELSE /\ wqi_features' = WqiFeatures(dissolved_oxygen)
          /\ Invoke(WQI, [features |-> wqi_features'])
          /\ IF models[WQI] = "raises"
             THEN /\ Raise(WQI, CallError(WQI))
                  /\ UNCHANGED <<wqi_result, session_state>>
             ELSE /\ wqi_result' = predict_wqi(wqi_features')
                  /\ session_state' = Put(session_state, "wqi_result", wqi_result')
                  /\ pc' = AfterStage(WQI)
                  /\ exc' = NoException
  /\ UNCHANGED <<models, role, uploaded, dissolved_oxygen, measured, warned, yolo_result,
                 raman_result, forecast_result, pinn_result, twin_result,
                 report, prev_tags, citVars, appVars>>

Except3 ==
  /\ pc = AtStage("except", WQI)
  /\ Warn(WQI)
  /\ wqi_result' = WqiFallback(exc)
  /\ pc' = AfterStage(WQI)
  /\ exc' = NoException
  /\ UNCHANGED <<models, role, session_state, uploaded, dissolved_oxygen, measured, calls, args,
                 wqi_features, yolo_result, raman_result, forecast_result,
                 pinn_result, twin_result, report, prev_tags, citVars, appVars>>

(***************************************************************************)
(* Step 4: forecast.  Both the call and the handler subscript              *)
(* wqi_result['wqi_score'].                                                *)
(***************************************************************************)
Try4 ==
  /\ pc = AtStage("try", FORECAST)
  /\ IF models[FORECAST] = "missing"
     THEN /\ Raise(FORECAST, ImportError(FORECAST))
          /\ UNCHANGED <<calls, args, forecast_result, session_state>>
     ELSE IF ~Has(wqi_result, "wqi_score")
     THEN /\ Raise(FORECAST, KeyError("wqi_score"))
          /\ UNCHANGED <<calls, args, forecast_result, session_state>>
     ELSE /\ Invoke(FORECAST, [current_wqi |-> wqi_result.wqi_score])
          /\ IF models[FORECAST] = "raises"
             THEN /\ Raise(FORECAST, CallError(FORECAST))
                  /\ UNCHANGED <<forecast_result, session_state>>
             ELSE /\ forecast_result' = forecast_wqi(wqi_result.wqi_score)
                  /\ session_state' = Put(session_state, "forecast_result", forecast_result')
                  /\ pc' = AfterStage(FORECAST)
                  /\ exc' = NoException
  /\ UNCHANGED <<models, role, uploaded, dissolved_oxygen, measured, warned, wqi_features,
                 yolo_result, raman_result, wqi_result, pinn_result,
                 twin_result, report, prev_tags, citVars, appVars>>

Except4 ==
  /\ pc = AtStage("except", FORECAST)
  /\ Warn(FORECAST)
  /\ exc' = NoException
  /\ IF Has(wqi_result, "wqi_score")
     THEN /\ \E d \in 1..MaxDraws :
               forecast_result' = ForecastFallback(exc, wqi_result.wqi_score, d)
          /\ pc' = AfterStage(FORECAST)
     ELSE /\ pc' = At("crashed")
          /\ UNCHANGED forecast_result
  /\ UNCHANGED <<models, role, session_state, uploaded, dissolved_oxygen, measured, calls, args,
                 wqi_features, yolo_result, raman_result, wqi_result,
                 pinn_result, twin_result, report, prev_tags, citVars, appVars>>

(***************************************************************************)
(* Step 5: PINN dissolved-oxygen prediction.  The call reads the local     *)
(* wqi_features of step 3.                                                 *)
(***************************************************************************)
Try5 ==
  /\ pc = AtStage("try", PINN)
  /\ IF models[PINN] = "missing"
     THEN /\ Raise(PINN, ImportError(PINN))
          /\ UNCHANGED <<calls, args, pinn_result, session_state>>
     ELSE IF ~IsBound(wqi_features)
     THEN /\ Raise(PINN, NameError)
          /\ UNCHANGED <<calls, args, pinn_result, session_state>>
     ELSE /\ Invoke(PINN, [features |-> wqi_features, hours |-> HorizonPinn])
          /\ IF models[PINN] = "raises"
             THEN /\ Raise(PINN, CallError(PINN))
                  /\ UNCHANGED <<pinn_result, session_state>>
             ELSE /\ pinn_result' = predict_dissolved_oxygen(wqi_features, HorizonPinn)
                  /\ session_state' = Put(session_state, "pinn_result", pinn_result')
                  /\ pc' = AfterStage(PINN)
                  /\ exc' = NoException
  /\ UNCHANGED <<models, role, uploaded, dissolved_oxygen, measured, warned, wqi_features,
                 yolo_result, raman_result, wqi_result, forecast_result,
                 twin_result, report, prev_tags, citVars, appVars>>

Except5 ==
  /\ pc = AtStage("except", PINN)
  /\ Warn(PINN)
  /\ pinn_result' = PinnFallback(exc, dissolved_oxygen)
  /\ pc' = AfterStage(PINN)
  /\ exc' = NoException
  /\ UNCHANGED <<models, role, session_state, uploaded, dissolved_oxygen, measured, calls, args,
                 wqi_features, yolo_result, raman_result, wqi_result,
                 forecast_result, twin_result, report, prev_tags, citVars, appVars>>

(***************************************************************************)
(* Step 6: digital twin simulation                                         *)
(***************************************************************************)
PollutionWeight == 10

TwinParamsUnweighted ==
  [pollution_load |-> Get(yolo_result, "count", 0),
   cleanup_frequency |-> 2,
   regulation_strictness |-> 7,
   initial_wqi |-> wqi_result.wqi_score]

TwinParams ==
  [pollution_load |-> Get(yolo_result, "count", 0) * PollutionWeight,
   cleanup_frequency |-> 2,
   regulation_strictness |-> 7,
   initial_wqi |-> wqi_result.wqi_score]

Try6 ==
  /\ pc = AtStage("try", TWIN)
  /\ IF models[TWIN] = "missing"
     THEN /\ Raise(TWIN, ImportError(TWIN))
          /\ UNCHANGED <<calls, args, twin_result, session_state>>
     ELSE IF ~Has(wqi_result, "wqi_score")
     THEN /\ Raise(TWIN, KeyError("wqi_score"))
          /\ UNCHANGED <<calls, args, twin_result, session_state>>
     ELSE /\ Invoke(TWIN, [params |-> TwinParams, days |-> HorizonTwin])
          /\ IF models[TWIN] = "raises"
             THEN /\ Raise(TWIN, CallError(TWIN))
                  /\ UNCHANGED <<twin_result, session_state>>
             ELSE /\ twin_result' = run_digital_twin_simulation(TwinParams, HorizonTwin)
                  /\ session_state' = Put(session_state, "twin_result", twin_result')
                  /\ pc' = AfterStage(TWIN)
                  /\ exc' = NoException
  /\ UNCHANGED <<models, role, uploaded, dissolved_oxygen, measured, warned, wqi_features,
                 yolo_result, raman_result, wqi_result, forecast_result,
                 pinn_result, report, prev_tags, citVars, appVars>>

Except6Stores ==
  /\ pc = AtStage("except", TWIN)
  /\ Warn(TWIN)
  /\ exc' = NoException
  /\ IF Has(wqi_result, "wqi_score")
     THEN /\ \E d \in 1..MaxDraws :
               twin_result' = TwinFallback(exc, wqi_result.wqi_score, d)
          /\ session_state' = Put(session_state, "twin_result", twin_result')
          /\ pc' = AfterStage(TWIN)
     ELSE /\ pc' = At("crashed")
          /\ UNCHANGED <<twin_result, session_state>>
  /\ UNCHANGED <<models, role, uploaded, dissolved_oxygen, measured, calls, args,
                 wqi_features, yolo_result, raman_result, wqi_result,
                 forecast_result, pinn_result, report, prev_tags, citVars, appVars>>

Except6 ==
  /\ pc = AtStage("except", TWIN)
  /\ Warn(TWIN)
  /\ exc' = NoException
  /\ IF Has(wqi_result, "wqi_score")
     THEN /\ \E d \in 1..MaxDraws :
               twin_result' = TwinFallback(exc, wqi_result.wqi_score, d)
          /\ pc' = AfterStage(TWIN)
     ELSE /\ pc' = At("crashed")
          /\ UNCHANGED twin_result
  /\ UNCHANGED <<models, role, session_state, uploaded, dissolved_oxygen, measured, calls, args,
                 wqi_features, yolo_result, raman_result, wqi_result,
                 forecast_result, pinn_result, report, prev_tags, citVars, appVars>>

(***************************************************************************)
(* The report.  Streamlit draws section by section; an exception stops the *)
(* script and leaves the sections drawn so far on the page.                *)
(***************************************************************************)
Sections == <<"summary", "detection", "forecast", "pinn", "twin", "policy", "csv">>

wqi_score == Get(wqi_result, "wqi_score", 0)

WqiColorInclusive(score) ==
  IF score >= 750 THEN "#2ecc71" ELSE IF score > 500 THEN "#f39c12" ELSE "#e74c3c"

WqiColor(score) ==
  IF score > 750 THEN "#2ecc71" ELSE IF score > 500 THEN "#f39c12" ELSE "#e74c3c"

FinalWqiTwinOrZero == Get(twin_result, "final_wqi", 0)

final_wqi_twin == Get(twin_result, "final_wqi", wqi_score)

improvement == final_wqi_twin - wqi_score

TwinTrendInclusive(d) == IF d >= 50 THEN "positive" ELSE IF d <= -50 THEN "negative" ELSE "stable"

TwinTrend(d) == IF d > 50 THEN "positive" ELSE IF d < -50 THEN "negative" ELSE "stable"

\* f"{x:.1f}" of a value held in thousandths, as tenths
Fmt1(milli) ==
  IF milli >= 0 THEN (milli + 50) \div 100 ELSE 0 - ((50 - milli) \div 100)

\* a section raises when it reads a local that is unbound or subscripts a
\* key the dict does not have
SectionRaises(name) ==
  CASE name = "summary" ->
         \/ ~IsBound(yolo_result) \/ ~IsBound(raman_result)
         \/ ~IsBound(wqi_result) \/ ~IsBound(pinn_result)
    [] name = "detection" -> ~IsBound(yolo_result)
    [] name = "forecast" -> ~IsBound(forecast_result)
    [] name = "pinn" ->
         \/ ~IsBound(pinn_result)
         \/ ~Has(pinn_result, "time_hours") \/ ~Has(pinn_result, "do_predictions")
    [] name = "twin" ->
         \/ ~IsBound(twin_result)
         \/ ~Has(twin_result, "days") \/ ~Has(twin_result, "wqi_trajectory")
    [] name = "policy" -> ~IsBound(yolo_result)
    [] name = "csv" -> FALSE

SectionValue(name) ==
  CASE name = "summary" ->
         [count |-> Get(yolo_result, "count", 0),
          polymer |-> Get(raman_result, "polymer", "N/A"),
          confidence |-> Get(raman_result, "confidence", 0),
          wqi_score |-> wqi_score,
          wqi_color |-> WqiColor(wqi_score),
          classification |-> Get(wqi_result, "classification", "N/A"),
          mean_do |-> Fmt1(Get(pinn_result, "mean_do", 0))]
    [] name = "detection" ->
         [image |-> IF Has(yolo_result, "annotated_image") THEN "annotated" ELSE "uploaded",
          breakdown |-> Get(yolo_result, "particle_types", EmptyMap)]
    [] name = "forecast" ->
         IF Has(forecast_result, "forecast_df")
         THEN LET df == forecast_result.forecast_df
                  final_wqi == df.Predicted_WQI[Len(df.Predicted_WQI)]
              IN  [chart |-> TRUE,
                   points |-> Len(df.Date),
                   final_wqi |-> final_wqi,
                   trend |-> IF final_wqi > wqi_score THEN "improving" ELSE "declining"]
         ELSE [chart |-> FALSE]
    [] name = "pinn" ->
         LET n == Len(Get(pinn_result, "critical_hours", << >>))
         IN  [points |-> Len(pinn_result.time_hours),
              critical_points |-> n,
              alert |-> n > 0,
              message |-> IF n > 0 THEN "alert" ELSE "safe"]
    [] name = "twin" ->
         [points |-> Len(twin_result.days),
          improvement |-> improvement,
          trend |-> TwinTrend(improvement)]
    [] name = "policy" ->
         [high_contamination |-> Get(yolo_result, "count", 0) > 100]
    [] name = "csv" ->
         [Metric |-> <<"Microplastics", "Polymer", "WQI", "DO (72h)", "Final WQI (30d)">>,
          Value |-> <<Get(yolo_result, "count", 0),
                      Get(raman_result, "polymer", "N/A"),
                      wqi_score,
                      Fmt1(Get(pinn_result, "mean_do", 0)),
                      final_wqi_twin>>]

\* number of sections drawn before the first one that raises
RECURSIVE Drawn(_)
Drawn(k) ==
  IF k > Len(Sections) THEN Len(Sections)
  ELSE IF SectionRaises(Sections[k]) THEN k - 1
  ELSE Drawn(k + 1)

Render ==
  /\ pc = At("render")
  /\ LET n == Drawn(1)
     IN  /\ report' = [name \in {Sections[k] : k \in 1..n} |-> SectionValue(name)]
         /\ pc' = IF n = Len(Sections) THEN At("report") ELSE At("crashed")
  /\ UNCHANGED <<models, role, session_state, uploaded, dissolved_oxygen, measured, exc, calls, args,
                 warned, govLocals, prev_tags, citVars, appVars>>

GovNext ==
  \/ ClickRun
  \/ Rerun
  \/ Try1 \/ Except1
  \/ Try2 \/ Except2
  \/ Try3 \/ Except3
  \/ Try4 \/ Except4
  \/ Try5 \/ Except5
  \/ Try6 \/ Except6
  \/ Render

Next == GovNext

Spec == Init /\ [][Next]_vars

(***************************************************************************)
(* Successive submissions in one session: between two runs the user may    *)
(* change the image and the readings, and the collaborators may stop or    *)
(* start working.  st.session_state survives, the locals do not.           *)
(***************************************************************************)
AllWork == [i \in Stages |-> "ok"]

AllRaise == [i \in Stages |-> "raises"]

SessionModels == {AllWork, AllRaise}

\* changing a widget re-executes the script with the button false
Resubmit(img, do, m) ==
  /\ GovShown
  /\ AtRest
  /\ <<img, do, m>> # <<uploaded, dissolved_oxygen, models>>
  /\ uploaded' = img
  /\ dissolved_oxygen' = do
  /\ measured' = MeasuredWith(do)
  /\ models' = m
  /\ pc' = At("idle")
  /\ FreshRun
  /\ UNCHANGED <<role, session_state, citVars, appVars>>

\* the multiselect of tab 3 changes: the script runs again with the button
\* false and draws every tab
SelectLocations(selected_locations) ==
  /\ GovShown
  /\ AtRest
  /\ selected_locations # widgets.selected_locations
  /\ widgets' = [widgets EXCEPT !.selected_locations = selected_locations]
  /\ app_page' = [app_page EXCEPT !.content = AnalyticsTab(selected_locations),
                                  !.error = AnalyticsTab(selected_locations).error]
  /\ pc' = At("idle")
  /\ FreshRun
  /\ UNCHANGED <<models, role, session_state, uploaded, dissolved_oxygen, measured, citVars>>

AnalyticsNext == \E selected_locations \in Selections : SelectLocations(selected_locations)

InitAnalytics ==
  /\ Init
  /\ models = AllWork

SpecAnalytics == InitAnalytics /\ [][AnalyticsNext]_vars

SessionsNext ==
  \/ GovNext
  \/ \E img \in GovImages \cup {NoImage}, do \in DOValues, m \in SessionModels :
       Resubmit(img, do, m)

InitSessions ==
  /\ Init
  /\ models \in SessionModels

SpecSessions == InitSessions /\ [][SessionsNext]_vars

(***************************************************************************)
(* Public dashboard: "Upload & Detect" and "My Reports"                    *)
(***************************************************************************)
\* bound of the clock
MaxClock == 5

\* the public dashboard is on the page
CitShown ==
  /\ session_state.user_role = Public
  /\ app_page.dashboard = "citizen"

\* the three places that derive a risk level from the particle count
BannerRisk(particle_count) ==
  IF particle_count > 100 THEN "SEVERE"
  ELSE IF particle_count > 50 THEN "MODERATE"
  ELSE "LOW"

CsvRiskLevel(particle_count) ==
  IF particle_count > 100 THEN "High"
  ELSE IF particle_count > 50 THEN "Moderate"
  ELSE "Low"

MyReportsRiskInclusive(particle_count) ==
  IF particle_count > 100 THEN "High"
  ELSE IF particle_count >= 50 THEN "Moderate"
  ELSE "Low"

MyReportsRisk(particle_count) ==
  IF particle_count > 100 THEN "High"
  ELSE IF particle_count > 50 THEN "Moderate"
  ELSE "Low"

\* a dict or None used as a condition
Truthy(v) == v # None /\ DOMAIN v # {}

MyReportsHidden(ss) == [shown |-> FALSE]

\* tab 2, drawn by every script run from the session state
MyReports(ss) ==
  IF Has(ss, "current_analysis") /\ Truthy(ss.current_analysis)
  THEN [shown |-> TRUE,
        timestamp |-> Get(ss, "analysis_timestamp", clock'),
        count |-> Get(ss.current_analysis, "count", 0),
        confidence |-> Get(ss.current_analysis, "avg_confidence", 0),
        risk |-> MyReportsRisk(Get(ss.current_analysis, "count", 0))]
  ELSE [shown |-> FALSE]

\* the results block of tab 1 raises when the result lacks the overlay or
\* the count, or when a type percentage divides by a zero count
ResultsRaise(result) ==
  \/ ~Has(result, "annotated_image")
  \/ ~Has(result, "count")
  \/ /\ Truthy(Get(result, "particle_types", EmptyMap))
     /\ result.count = 0

\* f"{count/result['count']*100:.1f}%", in tenths of a percent
Percentages(result) ==
  [t \in DOMAIN result.particle_types |->
     (2000 * result.particle_types[t] + result.count) \div (2 * result.count)]

Tick ==
  /\ clock < MaxClock
  /\ clock' = clock + 1

CitUpload(img) ==
  /\ CitShown
  /\ img # uploaded_file
  /\ Tick
  /\ uploaded_file' = img
  /\ cit_page' = [view |-> IF img = NoImage THEN "instructions" ELSE "uploader",
                  my_reports |-> MyReports(session_state)]
  /\ UNCHANGED <<models, role, session_state, govVars, appVars>>

\* st.button("Analyze Sample"), offered only with an uploaded file
CitAnalyze ==
  /\ CitShown
  /\ uploaded_file # NoImage
  /\ Tick
  /\ IF models[YOLO] # "ok"
     THEN /\ cit_page' = [view |-> "unexpected_error",
                          my_reports |-> MyReports(session_state)]
          /\ UNCHANGED session_state
     ELSE LET result == predict_image_with_viz(uploaded_file, session_state.confidence_threshold, "Public")
          IN  IF Has(result, "error")
              THEN /\ cit_page' = [view |-> "detection_failed",
                                   detector_args |-> [image |-> uploaded_file,
                                                      conf_threshold |-> session_state.confidence_threshold,
                                                      user_level |-> "Public"],
                                   my_reports |-> MyReports(session_state)]
                   /\ UNCHANGED session_state
              ELSE IF ResultsRaise(result)
              THEN /\ cit_page' = [view |-> "unexpected_error",
                                   my_reports |-> MyReports(session_state)]
                   /\ UNCHANGED session_state
              ELSE /\ session_state' =
                        Put(Put(session_state, "current_analysis", result),
                            "analysis_timestamp", clock')
                   /\ cit_page' =
                        [view |-> "results",
                         count |-> result.count,
                         particle_types |-> Get(result, "particle_types", EmptyMap),
                         percentages |-> IF Truthy(Get(result, "particle_types", EmptyMap))
                                         THEN Percentages(result) ELSE EmptyMap,
                         detector_args |-> [image |-> uploaded_file,
                                            conf_threshold |-> session_state.confidence_threshold,
                                            user_level |-> "Public"],
                         banner |-> BannerRisk(result.count),
                         csv_risk |-> CsvRiskLevel(result.count),
                         form_offered |-> result.count > 50,
                         my_reports |-> MyReports(session_state')]
  /\ UNCHANGED <<models, role, uploaded_file, govVars, appVars>>

\* any other interaction: the script runs again with the button false
CitRerun ==
  /\ CitShown
  /\ \/ cit_page.view \in {"results", "detection_failed", "unexpected_error"}
     \/ Has(cit_page, "trigger")
  /\ Tick
  /\ cit_page' = [view |-> "uploader", my_reports |-> MyReports(session_state)]
  /\ UNCHANGED <<models, role, session_state, uploaded_file, govVars, appVars>>

\* st.form_submit_button("Submit Report") of the form drawn inside the block
\* of the Analyze button: its click starts a script run in which Analyze is
\* false, so neither the form nor its confirmation is reached
CitSubmitReport ==
  /\ CitShown
  /\ cit_page.view = "results"
  /\ cit_page.form_offered
  /\ Tick
  /\ cit_page' = [view |-> "uploader", trigger |-> "Submit Report",
                  confirmation |-> FALSE, form_offered |-> FALSE,
                  my_reports |-> MyReports(session_state)]
  /\ UNCHANGED <<models, role, session_state, uploaded_file, govVars, appVars>>

\* between script runs the detector module is installed, removed or broken
DetectorChanges(b) ==
  /\ CitShown
  /\ b # models[YOLO]
  /\ models' = [models EXCEPT ![YOLO] = b]
  /\ UNCHANGED <<role, session_state, govVars, citVars, appVars>>

CitNext ==
  \/ \E img \in CitizenImages \cup {NoImage} : CitUpload(img)
  \/ CitAnalyze
  \/ CitRerun
  \/ CitSubmitReport
  \/ \E b \in Behaviours : DetectorChanges(b)

InitCitizen ==
  /\ InitWith(Public)
  /\ uploaded = NoImage
  /\ dissolved_oxygen = 75
  /\ \A i \in Stages \ {YOLO} : models[i] = "missing"

SpecCitizen == InitCitizen /\ [][CitNext]_vars

(***************************************************************************)
(* Researcher dashboard: "Raman Analysis"                                  *)
(***************************************************************************)
\* the length the classifier expects
ModelPoints == 1024

\* row counts of the explored CSV files
CsvLengths == {0, 1, 3, 1024, 1500}

\* the intensity column of the explored file with n rows
Intensity(n) == [k \in 1..n |-> (k * 37) % 101]

\* a CSV file: its columns, its intensity column, and whether the
\* intensities are numbers
Csv(n, numeric) ==
  [kind |-> "csv", columns |-> {"wavenumber", "intensity"},
   intensity |-> Intensity(n), numeric |-> numeric]

CsvWithoutIntensity ==
  [kind |-> "csv", columns |-> {"wavenumber", "counts"},
   intensity |-> << >>, numeric |-> TRUE]

UnreadableCsv == [kind |-> "unreadable"]

Spectra ==
  {NoSpectrum, UnreadableCsv, CsvWithoutIntensity, Csv(1024, FALSE), Csv(3, FALSE)}
    \cup {Csv(n, TRUE) : n \in CsvLengths}

\* the generated PE spectrum of the checkbox, 1024 points
SampleSpectrum ==
  [kind |-> "csv", columns |-> {"wavenumber", "intensity"},
   intensity |-> [k \in 1..ModelPoints |-> 10 + (k % 7)], numeric |-> TRUE]

\* spectrum_data: the checkbox wins over the uploaded file; a file that
\* pd.read_csv rejects leaves None
SpectrumData(w) ==
  IF w.use_sample THEN SampleSpectrum
  ELSE IF w.uploaded_csv.kind = "csv" THEN w.uploaded_csv
  ELSE None

\* the plot reads both columns outside any try
PlotRaises(spectrum_data) ==
  ~({"wavenumber", "intensity"} \subseteq spectrum_data.columns)

\* np.interp(np.linspace(0, len - 1, 1024), np.arange(len), spectrum): point
\* j of 0..1023 lies at j * (len - 1) / 1023 between two rows; values are
\* kept to the unit below
Resample(s) ==
  [j \in 1..ModelPoints |->
     LET x == (j - 1) * (Len(s) - 1)
         i == x \div (ModelPoints - 1)
         r == x % (ModelPoints - 1)
     IN  IF r = 0 THEN s[i + 1]
         ELSE s[i + 1] + ((s[i + 2] - s[i + 1]) * r) \div (ModelPoints - 1)]

\* np.interp raises on an empty column and on values that are not numbers
ResampleRaises(spectrum_data) ==
  \/ Len(spectrum_data.intensity) = 0
  \/ ~spectrum_data.numeric

PreparedAsLoaded(spectrum_data) == spectrum_data.intensity

\* the spectrum handed to the classifier
Prepared(spectrum_data) ==
  IF Len(spectrum_data.intensity) # ModelPoints
  THEN Resample(spectrum_data.intensity)
  ELSE spectrum_data.intensity

\* confidences (percent) the classifier may report
Confidences == {20, 49, 50, 51, 80, 81, 100}

\* the classifier's result when it is c percent sure of PET
PolymerResult(c) ==
  LET rest == (100 - c) \div 5
  IN  [polymer |-> "PET", confidence |-> c,
       all_probabilities |->
         [p \in Polymers |-> IF p = "PET" THEN c
                             ELSE IF p = "PE" THEN (100 - c) - 4 * rest
                             ELSE rest]]

\* the classifier rejects a spectrum whose values are not numbers
ClassifierRaises(spectrum_data) == ~spectrum_data.numeric

\* the levels the dashboard documents: >80% high, 50-80% medium, <50% low
DocumentedLevel(confidence) ==
  IF confidence > 80 THEN "High" ELSE IF confidence >= 50 THEN "Medium" ELSE "Low"

\* the colour the dashboard documents for a level
DocumentedColor(label) ==
  IF label = "High" THEN "#2ecc71" ELSE IF label = "Medium" THEN "#f39c12" ELSE "#e74c3c"

ConfLabel(confidence) ==
  IF confidence > 80 THEN "High" ELSE IF confidence > 50 THEN "Medium" ELSE "Low"

ConfColor(confidence) ==
  IF confidence > 80 THEN "#2ecc71" ELSE IF confidence > 50 THEN "#f39c12" ELSE "#e74c3c"

\* result.get('quality_score', 0.85), percent
DefaultQuality == 85

\* the report the download button would build
ReportData(result, spectrum_data, quality_score) ==
  [polymer |-> result.polymer, confidence |-> result.confidence,
   spectrum_points |-> Len(spectrum_data.intensity), quality_score |-> quality_score]

\* the researcher dashboard is on the page
ResShown ==
  /\ session_state.user_role = Researcher
  /\ app_page.dashboard = "researcher"

\* tab 1 of a script run in which no button is true
ResIdle(w, trigger) ==
  [view |-> "raman", trigger |-> trigger,
   read_error |-> (~w.use_sample /\ w.uploaded_csv.kind = "unreadable"),
   analyze_offered |-> (SpectrumData(w) # None /\ ~PlotRaises(SpectrumData(w))),
   analysis |-> "none", download_offered |-> FALSE, csv_offered |-> FALSE]

\* the page of a script run of the researcher dashboard with widgets w
ResPage(page, w, content) ==
  LET crash == SpectrumData(w) # None /\ PlotRaises(SpectrumData(w))
  IN  [page EXCEPT !.content = content,
                   !.error = IF crash THEN KeyError("intensity") ELSE NoException,
                   !.footer = ~page.harness /\ ~crash]

\* the file uploader or the checkbox changes
ResLoad(csv, sample) ==
  /\ ResShown
  /\ <<csv, sample>> # <<widgets.uploaded_csv, widgets.use_sample>>
  /\ Tick
  /\ widgets' = [widgets EXCEPT !.uploaded_csv = csv, !.use_sample = sample]
  /\ app_page' = ResPage(app_page, widgets', ResIdle(widgets', "load"))
  /\ UNCHANGED <<models, role, session_state, govVars, uploaded_file, cit_page>>

\* st.button("Analyze Spectrum"), drawn below the plot of a loaded spectrum;
\* the classifier reports confidence c
ResAnalyze(c) ==
  /\ ResShown
  /\ app_page.content.analyze_offered
  /\ Tick
  /\ LET spectrum_data == SpectrumData(widgets)
         failed(e, n, a) ==
           /\ app_page' = ResPage(app_page, widgets,
                [ResIdle(widgets, "analyze") EXCEPT !.analysis = "failed"]
                  @@ [message |-> e, classifier_calls |-> n, classifier_arg |-> a])
           /\ UNCHANGED session_state
     IN  IF models[RAMAN] = "missing"
         THEN failed(ImportError(RAMAN), 0, None)
         ELSE IF Len(spectrum_data.intensity) # ModelPoints /\ ResampleRaises(spectrum_data)
         THEN failed(<<"np.interp raised">>, 0, None)
         ELSE IF models[RAMAN] = "raises" \/ ClassifierRaises(spectrum_data)
         THEN failed(CallError(RAMAN), 1, Prepared(spectrum_data))
         ELSE LET result == PolymerResult(c)
                  quality_score == Get(result, "quality_score", DefaultQuality)
              IN  /\ session_state' = Put(session_state, "raman_result", result)
                  /\ app_page' = ResPage(app_page, widgets,
                       [ResIdle(widgets, "analyze") EXCEPT !.analysis = "results",
                                                           !.download_offered = TRUE]
                         @@ [result |-> result,
                             conf_label |-> ConfLabel(result.confidence),
                             conf_color |-> ConfColor(result.confidence),
                             quality_score |-> quality_score,
                             report_data |-> ReportData(result, spectrum_data, quality_score),
                             classifier_calls |-> 1,
                             classifier_arg |-> Prepared(spectrum_data)])
  /\ UNCHANGED <<models, role, widgets, govVars, uploaded_file, cit_page>>

\* st.button("Download Analysis Report"), drawn inside the block of the
\* Analyze button: its click starts a script run in which Analyze is false
ResDownload ==
  /\ ResShown
  /\ app_page.content.download_offered
  /\ Tick
  /\ app_page' = ResPage(app_page, widgets, ResIdle(widgets, "download"))
  /\ UNCHANGED <<models, role, session_state, widgets, govVars, uploaded_file, cit_page>>

ResNext ==
  \/ \E csv \in Spectra, sample \in BOOLEAN : ResLoad(csv, sample)
  \/ \E c \in Confidences : ResAnalyze(c)
  \/ ResDownload

\* behaviours of the classifier module
RamanModels == {[i \in Stages |-> b] : b \in Behaviours}

InitResearcher ==
  /\ InitBase(Researcher)
  /\ app_page = ResPage(AppPage(Researcher, None), DefaultWidgets, ResIdle(DefaultWidgets, "load"))
  /\ uploaded = NoImage
  /\ dissolved_oxygen = 75
  /\ models \in RamanModels

SpecResearcher == InitResearcher /\ [][ResNext]_vars

(***************************************************************************)
(* Admin panel: login, content, Logout                                     *)
(***************************************************************************)
\* texts typed into the login form
Usernames == {"admin", "Admin", ""}

Passwords == {"admin123", "admin", ""}

CredentialsOkUserOnly(username, password) == username = "admin"

CredentialsOk(username, password) == username = "admin" /\ password = "admin123"

\* show_admin_panel starts by giving the flag a value
WithAdminFlag(ss) ==
  IF Has(ss, "admin_authenticated") THEN ss ELSE Put(ss, "admin_authenticated", FALSE)

\* what show_admin_panel draws for the session state of the run
AdminContent(ss, trigger, message) ==
  [view |-> IF ss.admin_authenticated THEN "administration" ELSE "login",
   trigger |-> trigger, message |-> message]

\* the admin panel is on the page
AdmShown ==
  /\ session_state.user_role = Admin
  /\ app_page.dashboard = "admin"

\* st.form_submit_button("Login"): a matching pair sets the flag and runs the
\* script again
AdmLogin(username, password) ==
  /\ AdmShown
  /\ ~session_state.admin_authenticated
  /\ Tick
  /\ IF CredentialsOk(username, password)
     THEN /\ session_state' = Put(session_state, "admin_authenticated", TRUE)
          /\ app_page' = [app_page EXCEPT !.content =
               AdminContent(session_state', <<"Login", username, password>>, "none")]
     ELSE /\ UNCHANGED session_state
          /\ app_page' = [app_page EXCEPT !.content =
               AdminContent(session_state, <<"Login", username, password>>, "Invalid credentials")]
  /\ UNCHANGED <<models, role, widgets, govVars, uploaded_file, cit_page>>

\* st.button("Logout"), drawn below the administration content: clears the
\* flag and runs the script again
AdmLogout ==
  /\ AdmShown
  /\ session_state.admin_authenticated
  /\ Tick
  /\ session_state' = Put(session_state, "admin_authenticated", FALSE)
  /\ app_page' = [app_page EXCEPT !.content = AdminContent(session_state', <<"Logout">>, "none")]
  /\ UNCHANGED <<models, role, widgets, govVars, uploaded_file, cit_page>>

AdmNext ==
  \/ \E username \in Usernames, password \in Passwords : AdmLogin(username, password)
  \/ AdmLogout

(***************************************************************************)
(* The whole application: the sidebar radio switches between the           *)
(* dashboards.  A widget that a script run does not draw loses its value.  *)
(***************************************************************************)
\* the radio changes: the script runs again with role r selected
SelectRole(r) ==
  /\ ~app_page.harness
  /\ r # role
  /\ AtRest
  /\ Tick
  /\ role' = r
  /\ session_state' =
       LET ss == Put(Put(session_state, "confidence_threshold", RoleConfidence(role')),
                     "user_role", role')
       IN  IF r = Admin THEN WithAdminFlag(ss) ELSE ss
  /\ uploaded' = NoImage
  /\ uploaded_file' = NoImage
  /\ dissolved_oxygen' = 75
  /\ measured' = DefaultMeasurements
  /\ widgets' = DefaultWidgets
  /\ pc' = At("idle")
  /\ FreshRun
  /\ cit_page' = IF r = Public
                 THEN [view |-> "instructions", my_reports |-> MyReports(session_state')]
                 ELSE BlankPage
  /\ app_page' = AppPage(r, IF r = Admin THEN AdminContent(session_state', <<"role">>, "none")
                              ELSE IF r = Researcher THEN ResIdle(widgets', "role")
                              ELSE None)
  /\ UNCHANGED models

AppNext ==
  \/ \E r \in Roles : SelectRole(r)
  \/ CitNext
  \/ ResNext
  \/ AdmNext

\* the radio starts on its first option
InitApp ==
  /\ InitBase(Public)
  /\ app_page = AppPage(Public, None)
  /\ uploaded = NoImage
  /\ dissolved_oxygen = 75
  /\ models \in SessionModels

SpecApp == InitApp /\ [][AppNext]_vars

(***************************************************************************)
(* The view functions together: a behaviour is either a session of the     *)
(* application or a session of show_government_dashboard called directly.  *)
(***************************************************************************)
ViewsNext ==
  \/ AppNext
  \/ GovNext
  \/ \E img \in GovImages \cup {NoImage} : Resubmit(img, dissolved_oxygen, models)

InitViews ==
  \/ InitApp
  \/ /\ InitWith(Government)
     /\ dissolved_oxygen = 75
     /\ models \in SessionModels

SpecViews == InitViews /\ [][ViewsNext]_vars

(***************************************************************************)
(* Properties                                                              *)
(***************************************************************************)
\* stage i has been left behind by the current run
Past(i) ==
  \/ pc.at \in {"render", "report"}
  \/ pc.at \in {"try", "except"} /\ pc.stage > i

ReportComplete == DOMAIN report = {Sections[k] : k \in 1..Len(Sections)}

SixResults == \A i \in Stages : IsBound(StageResult(i))

AllFail == \A i \in Stages : models[i] # "ok"

\* C1: with an image and any combination of collaborators raising, missing
\* or returning, no exception leaves the run: the run never stops on an
\* uncaught exception, it is always at a step of one of the six stages or
\* at the report, and every stage left behind has a value, the fallback
\* when its collaborator failed.
C1_NoExceptionEscapes ==
  /\ pc.at # "crashed"
  /\ pc.at \in {"try", "except"} => pc.stage \in Stages
  /\ pc.at = "except" => exc # NoException
  /\ \A i \in Stages :
       Past(i) => /\ IsBound(StageResult(i))
                  /\ models[i] # "ok" => Degraded(StageResult(i)) /\ i \in warned

C1_Witness ==
  /\ pc = At("report")
  /\ ReportComplete
  /\ models[YOLO] = "raises"
  /\ models[WQI] = "missing"
  /\ models[FORECAST] = "raises"
  /\ models[TWIN] = "ok"

\* C2 as claimed: every requested run, with or without an image, ends with
\* a report holding six stage results.
C2_Original ==
  (AtRest /\ pc.at # "idle") => (SixResults /\ ReportComplete)

\* C2 as amended: a run requested with an image ends with a report holding
\* six stage results; a run requested without an image runs no stage and
\* shows no report.
C2_SixResultsWithImage ==
  /\ (AtRest /\ pc.at # "idle" /\ uploaded # NoImage) => (SixResults /\ ReportComplete)
  /\ pc.at = "report" => uploaded # NoImage
  /\ uploaded = NoImage =>
       /\ pc.at \in {"idle", "no_image"}
       /\ report = NoReport
       /\ \A i \in Stages : ~IsBound(StageResult(i)) /\ calls[i] = 0

C2_Witness ==
  /\ pc = At("report")
  /\ SixResults
  /\ uploaded = Sample(150)
  /\ \E i \in Stages : Degraded(StageResult(i))
  /\ \E i \in Stages : ~Degraded(StageResult(i))

\* C3: a report is either absent or complete: rendering starts only when
\* all six stages have a value, and whatever is on the page as a report has
\* every section and a value behind each of the six stages.
C3_ReportAllOrNothing ==
  /\ pc.at = "render" => SixResults
  /\ report # NoReport => (ReportComplete /\ SixResults /\ pc = At("report"))

C3_Witness ==
  /\ report # NoReport
  /\ ReportComplete
  /\ models[TWIN] = "missing"
  /\ Degraded(twin_result)

\* C4: whatever happened in earlier stages, a later stage whose collaborator
\* is installed is invoked once the run has passed it.
C4_LaterStagesInvoked ==
  \A j \in Stages : (Past(j) /\ models[j] # "missing") => calls[j] = 1

\* C5: when the detector throws, the detection result is count 0 with an
\* empty type map, tagged degraded with the error as reason, and the run
\* still gives stages 2 to 6 a value and ends with the report.
C5_DetectorFallback ==
  models[YOLO] # "ok" =>
    /\ Past(YOLO) =>
         /\ Has(yolo_result, "count") /\ yolo_result.count = 0
         /\ Has(yolo_result, "particle_types") /\ yolo_result.particle_types = EmptyMap
         /\ Degraded(yolo_result)
         /\ yolo_result.error =
              IF models[YOLO] = "missing" THEN ImportError(YOLO) ELSE CallError(YOLO)
    /\ pc.at # "crashed"
    /\ pc.at = "report" => \A i \in 2..6 : IsBound(StageResult(i))

C5_Witness ==
  /\ pc = At("report")
  /\ models[YOLO] = "raises"
  /\ yolo_result.count = 0
  /\ calls[RAMAN] = 1 /\ ~Degraded(raman_result)
  /\ calls[TWIN] = 1 /\ ~Degraded(twin_result)

\* C6: with every collaborator failing, each completed run ends without an
\* exception and all six of its stage tags are Degraded, equal to the tags
\* of the run completed before it, whatever the random draws.
C6_TagsAgree ==
  AllFail =>
    /\ pc.at # "crashed"
    /\ pc.at = "report" =>
         /\ \A i \in Stages : StageTags[i]
         /\ prev_tags.run => prev_tags.tags = StageTags

C6_Witness ==
  /\ AllFail
  /\ pc = At("report")
  /\ prev_tags.run
  /\ dissolved_oxygen = 75
  /\ forecast_result.forecast_df.Predicted_WQI[1] # 523

\* C7: in a completed run a stage result carries the 'error' marker exactly
\* when its value is a substituted fallback, which is also when the page
\* tells the user (st.error / st.warning) that the stage is synthetic.
C7_MarkerIffFallback ==
  pc.at = "report" =>
    \A i \in Stages : Degraded(StageResult(i)) <=> i \in warned

\* what holds of every state of a run: calls are counted at most once, and
\* the stage in progress has values before it and none from it on
C8_Inv ==
  /\ \A i \in Stages : calls[i] <= 1
  /\ pc.at \in {"try", "except"} =>
       /\ \A i \in Stages : i < pc.stage => IsBound(StageResult(i))
       /\ \A i \in Stages : i >= pc.stage =>
            /\ ~IsBound(StageResult(i))
            /\ calls[i] <= (IF i = pc.stage /\ pc.at = "except" THEN 1 ELSE 0)

\* what holds of every step of a run
C8_Step ==
  /\ (pc.at = "try" /\ pc'.at = "try") => pc'.stage = pc.stage + 1
  /\ (pc.at = "try" /\ pc'.at = "except") => pc'.stage = pc.stage
  /\ (pc.at = "try" /\ pc'.at = "render") => pc.stage = TWIN
  /\ \A i \in Stages :
       (pc = AtStage("except", i)) =>
         /\ calls' = calls
         /\ Degraded(StageResult(i))'
         /\ pc' = (IF i < TWIN THEN AtStage("try", i + 1) ELSE At("render"))
  /\ pc'.at = "render" => (pc.at \in {"try", "except"} /\ pc.stage = TWIN)

\* C8: the stages run in the order 1..6, a stage starts only when all
\* earlier ones have a value and no later one has; a collaborator is called
\* at most once per run; an except clause is left with the stage's fallback
\* in place, without another call.
C8_SequentialOnce == [](C8_Inv) /\ [][C8_Step]_vars

C8_Witness ==
  /\ pc = At("report")
  /\ calls[YOLO] = 1 /\ models[YOLO] = "raises"
  /\ calls[WQI] = 0 /\ models[WQI] = "missing"
  /\ calls[TWIN] = 1 /\ models[TWIN] = "ok"

\* C9: the risk level is High above 100 particles, Moderate from 51 to 100
\* and Low up to 50; the banner, the CSV Risk_Level and the My Reports risk
\* level of a result all show that level.
RiskOf(n) ==
  IF n > 100 THEN "High"
  ELSE IF n >= 51 /\ n <= 100 THEN "Moderate"
  ELSE "Low"

BannerOf(risk) ==
  CASE risk = "High" -> "SEVERE"
    [] risk = "Moderate" -> "MODERATE"
    [] risk = "Low" -> "LOW"

C9_RiskLevelsAgree ==
  /\ cit_page.view = "results" =>
       /\ cit_page.csv_risk = RiskOf(cit_page.count)
       /\ cit_page.banner = BannerOf(RiskOf(cit_page.count))
       /\ cit_page.my_reports.shown
       /\ cit_page.my_reports.count = cit_page.count
       /\ cit_page.my_reports.risk = cit_page.csv_risk
  /\ (Has(cit_page, "my_reports") /\ cit_page.my_reports.shown) =>
       cit_page.my_reports.risk = RiskOf(cit_page.my_reports.count)
  /\ CsvRiskLevel(150) = "High" /\ CsvRiskLevel(75) = "Moderate" /\ CsvRiskLevel(20) = "Low"

C9_Witness ==
  /\ cit_page.view = "uploader"
  /\ cit_page.my_reports.shown
  /\ cit_page.my_reports.count = 50
  /\ cit_page.my_reports.risk = "Low"
  /\ uploaded_file = Sample(101)

\* C10 as claimed: the score card is green above 75, amber from 51 to 75
\* and red up to 50.
C10_Original ==
  report # NoReport =>
    LET sc == report["summary"].wqi_score
        color == report["summary"].wqi_color
    IN  /\ color = "#2ecc71" <=> sc > 750
        /\ color = "#f39c12" <=> (sc >= 510 /\ sc <= 750)
        /\ color = "#e74c3c" <=> sc <= 500

\* C10 as amended: the score card is green above 75, amber above 50 up to
\* 75 (50.5 is amber) and red up to 50; 50 is red and 75 is amber.
C10_ScoreBands ==
  report # NoReport =>
    LET sc == report["summary"].wqi_score
        color == report["summary"].wqi_color
    IN  /\ color \in {"#2ecc71", "#f39c12", "#e74c3c"}
        /\ color = "#2ecc71" <=> sc > 750
        /\ color = "#f39c12" <=> (sc > 500 /\ sc <= 750)
        /\ color = "#e74c3c" <=> sc <= 500

C10_Witness ==
  /\ report # NoReport
  /\ report["summary"].wqi_score = 750
  /\ report["summary"].wqi_color = "#f39c12"

\* number of predicted oxygen values strictly below the critical level
CriticalCount(r) ==
  Cardinality({k \in 1..Len(r.do_predictions) : r.do_predictions[k] < CriticalDO})

\* C11: whenever the oxygen section of a report is on the page, the number of
\* critical points it works with equals the number of predicted values
\* strictly below 4.0 (a value equal to 4.0 is not counted), and the alert
\* is shown exactly when that number is positive; otherwise the safe-limits
\* message is shown.
C11_CriticalPoints ==
  "pinn" \in DOMAIN report =>
    /\ report["pinn"].critical_points = CriticalCount(pinn_result)
    /\ report["pinn"].alert <=> CriticalCount(pinn_result) > 0
    /\ report["pinn"].message = IF CriticalCount(pinn_result) > 0 THEN "alert" ELSE "safe"

\* a fallback prediction that starts exactly at 4.0 and later falls below it
C11_Witness ==
  /\ pc = At("report")
  /\ Degraded(pinn_result)
  /\ pinn_result.do_predictions[1] = CriticalDO
  /\ report["pinn"].alert
  /\ report["pinn"].critical_points < PinnPoints
  /\ report["pinn"].critical_points > 0

\* C12: whenever the simulation section of a report is on the page, with
\* d = final simulated score - stage-3 score, its message is the improvement
\* one if d > 5, the decline one if d < -5 and the stable one otherwise (so
\* at d = 5 and d = -5); a simulation result without a final value gives
\* d = 0 and the stable message.
C12_TwinTrend ==
  "twin" \in DOMAIN report =>
    LET score == wqi_result.wqi_score
        d == IF Has(twin_result, "final_wqi") THEN twin_result.final_wqi - score ELSE 0
    IN  /\ report["twin"].improvement = d
        /\ report["twin"].trend \in {"positive", "negative", "stable"}
        /\ report["twin"].trend = "positive" <=> d > 50
        /\ report["twin"].trend = "negative" <=> d < -50
        /\ report["twin"].trend = "stable" <=> (d >= -50 /\ d <= 50)

\* a report whose simulated score ends exactly 5.0 above the stage-3 score
C12_Witness ==
  /\ pc = At("report")
  /\ Has(twin_result, "final_wqi")
  /\ twin_result.final_wqi - wqi_result.wqi_score = 50
  /\ report["twin"].trend = "stable"

StrictlyIncreasing(q) == \A i \in 1..(Len(q) - 1) : q[i] < q[i + 1]

\* C13: the forecast of every report is a table of dates and predicted
\* scores of exactly 60 rows whose dates strictly increase, and the report
\* charts it; a synthesized forecast is the stage-3 score (real or fallback)
\* plus the drawn noise.
C13_ForecastShape ==
  "forecast" \in DOMAIN report =>
    /\ Has(forecast_result, "forecast_df")
    /\ Len(forecast_result.forecast_df.Date) = HorizonForecast
    /\ Len(forecast_result.forecast_df.Predicted_WQI) = HorizonForecast
    /\ StrictlyIncreasing(forecast_result.forecast_df.Date)
    /\ report["forecast"].chart
    /\ report["forecast"].points = HorizonForecast
    /\ Degraded(forecast_result) =>
         \E d \in 1..MaxDraws : \A i \in 1..HorizonForecast :
            forecast_result.forecast_df.Predicted_WQI[i]
              = wqi_result.wqi_score + ForecastNoise(d, i)

\* a report with a synthesized forecast built on the fallback score 52.3
C13_Witness ==
  /\ pc = At("report")
  /\ Degraded(forecast_result)
  /\ Degraded(wqi_result)
  /\ forecast_result.forecast_df.Predicted_WQI[1] # wqi_result.wqi_score
  /\ Len(forecast_result.forecast_df.Date) = HorizonForecast

\* C14: the simulator is invoked with pollution load 10 x the particle
\* count of the detection result (0 for the detection fallback and for a
\* result without a count), the stage-3 score as initial score, cleanup
\* frequency 0.2, regulation strictness 0.7 and 30 days; the simulation
\* fallback has 30 points over the day offsets 0..29, is the stage-3 score
\* plus twice the running sum of the drawn noise, and reports its last point
\* as final value.
C14_TwinInputsAndFallback ==
  /\ args[TWIN] # None =>
       /\ args[TWIN].days = 30
       /\ args[TWIN].params.pollution_load =
            (IF Has(yolo_result, "count") THEN yolo_result.count ELSE 0) * 10
       /\ Degraded(yolo_result) => args[TWIN].params.pollution_load = 0
       /\ args[TWIN].params.initial_wqi = wqi_result.wqi_score
       /\ args[TWIN].params.cleanup_frequency = 2
       /\ args[TWIN].params.regulation_strictness = 7
       /\ DOMAIN args[TWIN].params =
            {"pollution_load", "cleanup_frequency", "regulation_strictness", "initial_wqi"}
  /\ (IsBound(twin_result) /\ Degraded(twin_result)) =>
       /\ twin_result.days = [i \in 1..30 |-> i - 1]
       /\ Len(twin_result.wqi_trajectory) = 30
       /\ twin_result.final_wqi = twin_result.wqi_trajectory[30]
       /\ \E d \in 1..MaxDraws : \A i \in 1..30 :
            twin_result.wqi_trajectory[i] = wqi_result.wqi_score + 2 * CumSum(d, i)

\* a run whose simulator was invoked for 150 particles, raised, and was
\* replaced by a trajectory that moves away from the fallback score 52.3
C14_Witness ==
  /\ pc = At("report")
  /\ args[TWIN] # None
  /\ args[TWIN].params.pollution_load = 1500
  /\ Degraded(wqi_result)
  /\ Degraded(twin_result)
  /\ twin_result.final_wqi # wqi_result.wqi_score

CsvLabels == <<"Microplastics", "Polymer", "WQI", "DO (72h)", "Final WQI (30d)">>

\* the first four rows of the export repeat the summary cards of the report
CsvRepeatsSummary ==
  /\ DOMAIN report["csv"] = {"Metric", "Value"}
  /\ report["csv"].Metric = CsvLabels
  /\ Len(report["csv"].Value) = 5
  /\ report["csv"].Value[1] = report["summary"].count
  /\ report["csv"].Value[1] = Get(yolo_result, "count", 0)
  /\ report["csv"].Value[2] = report["summary"].polymer
  /\ report["csv"].Value[2] = Get(raman_result, "polymer", "N/A")
  /\ report["csv"].Value[3] = report["summary"].wqi_score
  /\ report["csv"].Value[3] = wqi_result.wqi_score
  /\ report["csv"].Value[4] = report["summary"].mean_do
  /\ report["csv"].Value[4] = Fmt1(Get(pinn_result, "mean_do", 0))

\* C15 as stated: two columns, five rows in the stated order, each value the
\* stage value of the report, and 0 where the stage result lacks the field;
\* in particular a simulation result without a final value exports 0.
C15_Original ==
  "csv" \in DOMAIN report =>
    /\ CsvRepeatsSummary
    /\ report["csv"].Value[5] =
         (IF Has(twin_result, "final_wqi") THEN twin_result.final_wqi ELSE 0)

\* C15: the export has the two columns Metric and Value and the five rows
\* particle count, polymer label, index score, mean predicted oxygen and
\* final simulated score, in this order; the first four equal the summary
\* cards (0 for a missing count or mean oxygen, N/A for a missing label),
\* and the fifth is the simulation's final value, or the stage-3 score when
\* the simulation result has no final value.
C15_CsvRows ==
  "csv" \in DOMAIN report =>
    /\ CsvRepeatsSummary
    /\ report["csv"].Value[5] =
         (IF Has(twin_result, "final_wqi") THEN twin_result.final_wqi
          ELSE wqi_result.wqi_score)

\* an export for a detection result without a count and a simulation result
\* without a final value
C15_Witness ==
  /\ pc = At("report")
  /\ ~Has(yolo_result, "count")
  /\ ~Has(twin_result, "final_wqi")
  /\ report["csv"].Value[1] = 0
  /\ report["csv"].Value[5] = 505

FeatureKeys ==
  {"temperature", "ph", "dissolved_oxygen", "conductivity", "turbidity", "tds",
   "bod", "cod", "nitrate", "phosphate", "fecal_coliform", "total_coliform",
   "chloride", "fluoride", "hardness", "alkalinity"}

\* C16: the map handed to the scorer has exactly the sixteen keys of the
\* vocabulary, its twelve measured keys carry the values entered on the page,
\* and a map handed to the physics predictor is the one that was handed to the
\* scorer.
C16_ParameterMap ==
  /\ args[WQI] # None =>
       /\ DOMAIN args[WQI].features = FeatureKeys
       /\ Cardinality(DOMAIN args[WQI].features) = 16
       /\ args[WQI].features.dissolved_oxygen = dissolved_oxygen
       /\ \A k \in DOMAIN measured : args[WQI].features[k] = measured[k]
       /\ Cardinality(DOMAIN measured) = 11
  /\ args[PINN] # None =>
       /\ args[WQI] # None
       /\ args[PINN].features = args[WQI].features

\* a run on a polluted sample in which both the scorer and the physics
\* predictor were invoked
C16_Witness ==
  /\ pc = At("report")
  /\ measured = PollutedMeasurements
  /\ args[WQI] # None
  /\ args[PINN] # None
  /\ args[PINN].features.turbidity = 800

\* what the current submission and the current collaborators determine
ExpectedTags ==
  [i \in Stages |->
     CASE i = YOLO -> models[YOLO] # "ok" \/ uploaded.kind # "sample"
       [] i = PINN -> models[PINN] # "ok" \/ models[WQI] = "missing"
       [] OTHER -> models[i] # "ok"]

ExpectedScore ==
  IF models[WQI] = "ok" THEN predict_wqi(WqiFeatures(dissolved_oxygen)).wqi_score ELSE 523

ExpectedCount ==
  IF models[YOLO] = "ok" /\ uploaded.kind = "sample" THEN uploaded.particles ELSE 0

C18_TypeCountsSum ==
  /\ "detection" \in DOMAIN report =>
       /\ SumMap(Get(yolo_result, "particle_types", EmptyMap)) = Get(yolo_result, "count", 0)
       /\ SumMap(report["detection"].breakdown) = report["summary"].count
       /\ YOLO \in warned => (report["summary"].count = 0 /\ report["detection"].breakdown = EmptyMap)
  /\ cit_page.view = "results" =>
       /\ SumMap(cit_page.particle_types) = cit_page.count
       /\ DOMAIN cit_page.percentages = DOMAIN cit_page.particle_types
       /\ \A t \in DOMAIN cit_page.particle_types :
            /\ cit_page.percentages[t] * 2 * cit_page.count
                 <= 2000 * cit_page.particle_types[t] + cit_page.count
            /\ (cit_page.percentages[t] + 1) * 2 * cit_page.count
                 > 2000 * cit_page.particle_types[t] + cit_page.count

\* a public results page for 101 particles, one of whose percentages is
\* rounded
C18_Witness ==
  /\ cit_page.view = "results"
  /\ cit_page.count = 101
  /\ SumMap(cit_page.particle_types) = 101
  /\ \E t \in DOMAIN cit_page.percentages :
       cit_page.percentages[t] * 101 # 1000 * cit_page.particle_types[t]

\* C19: the material result of every report carries a label from the closed
\* set of polymers, a confidence between 0 and 1, and a probability for each
\* polymer, the probabilities adding up to 1.
C19_MaterialResultShape ==
  "summary" \in DOMAIN report =>
    /\ Has(raman_result, "polymer")
    /\ raman_result.polymer \in Polymers
    /\ Has(raman_result, "confidence")
    /\ raman_result.confidence \in 0..100
    /\ Has(raman_result, "all_probabilities")
    /\ DOMAIN raman_result.all_probabilities = Polymers
    /\ SumMap(raman_result.all_probabilities) = 100

\* C20: the session's threshold and role are those of the radio selection
\* (Public 0.50, Government 0.35, Researcher 0.10, Admin 0.10), the detector
\* invocation of the public view uses 0.50, the session value, and the one of
\* the government pipeline uses 0.35.
C20_ThresholdByRole ==
  /\ session_state.user_role = role
  /\ session_state.confidence_threshold =
       (CASE role = "Public User" -> 50
          [] role = "Government Official" -> 35
          [] role = "Researcher" -> 10
          [] role = "Admin Panel" -> 10)
  /\ args[YOLO] # None =>
       /\ role = "Government Official"
       /\ args[YOLO].conf_threshold = 35
       /\ args[YOLO].conf_threshold = session_state.confidence_threshold
  /\ cit_page.view \in {"results", "detection_failed"} =>
       /\ role = "Public User"
       /\ cit_page.detector_args.conf_threshold = 50
       /\ cit_page.detector_args.conf_threshold = session_state.confidence_threshold

\* a public analysis made after the session had visited the admin panel,
\* whose threshold is 0.10
C20_Witness ==
  /\ role = Public
  /\ Has(session_state, "admin_authenticated")
  /\ cit_page.view = "results"
  /\ cit_page.detector_args.conf_threshold = 50

\* C21: a script run of the application with a role selected renders that
\* role's dashboard and no other, and reaches the footer without an uncaught
\* error.
C21_RoleDashboard ==
  ~app_page.harness =>
    /\ app_page.dashboard = DashboardOf(role)
    /\ app_page.error = NoException
    /\ app_page.footer

\* the index scores a report shows: the stage-3 score, the forecast points and
\* the points of the simulated trajectory
ReportScores ==
  {wqi_score}
    \cup {forecast_result.forecast_df.Predicted_WQI[i] :
             i \in DOMAIN forecast_result.forecast_df.Predicted_WQI}
    \cup {twin_result.wqi_trajectory[i] : i \in DOMAIN twin_result.wqi_trajectory}

\* C22: every index score of a report lies in 0..100, fallback forecasts and
\* trajectories included, when the stage-3 score does.
C22_ScoresInRange ==
  ("summary" \in DOMAIN report /\ wqi_score \in 0..1000) =>
    \A x \in ReportScores : x \in 0..1000

\* the Raman tab shows the results of an analysis
RamanResults ==
  /\ app_page.dashboard = "researcher"
  /\ app_page.content.analysis = "results"

\* C23: in the researcher's Raman result the label is the documented level
\* of the confidence (above 80% High, 50% to 80% Medium, below 50% Low) and
\* the colour is the one of the label's band.
C23_ConfidenceBands ==
  RamanResults =>
    /\ app_page.content.conf_label = DocumentedLevel(app_page.content.result.confidence)
    /\ app_page.content.conf_color = DocumentedColor(app_page.content.conf_label)

\* C28: the script run started by a click on "Download Analysis Report"
\* offers the CSV report of the analysis: polymer, confidence, spectrum
\* point count and quality score.
C28_DownloadOffersCsv ==
  (app_page.dashboard = "researcher" /\ app_page.content.trigger = "download") =>
    /\ app_page.content.csv_offered
    /\ Has(app_page.content, "report_data")
    /\ app_page.content.report_data.polymer = session_state.raman_result.polymer
    /\ app_page.content.report_data.confidence = session_state.raman_result.confidence

\* the loaded intensity column
LoadedIntensity == SpectrumData(widgets).intensity

\* C30: a script run started by "Analyze Spectrum" ends without an uncaught
\* exception in one of two ways: the classifier was invoked once with 1024
\* points (the loaded column itself when it has 1024 points, otherwise its
\* resampling, which starts and ends where the column does) and its result
\* is the new raman_result, or an error is shown and the session state is
\* as before.
C30_AnalyzeOutcomes ==
  [][(app_page'.dashboard = "researcher" /\ app_page'.content.trigger = "analyze") =>
       /\ app_page'.error = NoException
       /\ app_page'.footer
       /\ \/ /\ app_page'.content.analysis = "results"
             /\ app_page'.content.classifier_calls = 1
             /\ Len(app_page'.content.classifier_arg) = ModelPoints
             /\ app_page'.content.classifier_arg[1] = LoadedIntensity[1]
             /\ app_page'.content.classifier_arg[ModelPoints]
                  = LoadedIntensity[Len(LoadedIntensity)]
             /\ Len(LoadedIntensity) = ModelPoints
                  => app_page'.content.classifier_arg = LoadedIntensity
             /\ Len(LoadedIntensity) # ModelPoints
                  => app_page'.content.classifier_arg = Resample(LoadedIntensity)
             /\ session_state' = Put(session_state, "raman_result", app_page'.content.result)
          \/ /\ app_page'.content.analysis = "failed"
             /\ Has(app_page'.content, "message")
             /\ app_page'.content.classifier_calls \in {0, 1}
             /\ app_page'.content.classifier_calls = 1
                  => Len(app_page'.content.classifier_arg) = ModelPoints
             /\ session_state' = session_state]_vars

\* the classifier's result for a file of 1500 rows, resampled to 1024 points,
\* is stored
C30_Witness ==
  /\ RamanResults
  /\ app_page.content.trigger = "analyze"
  /\ Len(LoadedIntensity) = 1500
  /\ Len(app_page.content.classifier_arg) = ModelPoints
  /\ session_state.raman_result = app_page.content.result

\* the session holds a public analysis
HasAnalysis(ss) == Has(ss, "current_analysis") /\ Truthy(ss.current_analysis)

\* C24: a public script run changes the session state only when it shows
\* the results of a detection without an 'error' entry, which then is
\* current_analysis, stamped with the time of the run; a run that shows a
\* detection failure or an unexpected error leaves the session state as it
\* was.  "My Reports" shows nothing before the first such analysis and
\* afterwards the count and the risk level of current_analysis.
C24_AnalysisKept ==
  [][/\ session_state' # session_state =>
          /\ cit_page'.view = "results"
          /\ HasAnalysis(session_state')
          /\ ~Has(session_state'.current_analysis, "error")
          /\ session_state'.current_analysis.count = cit_page'.count
          /\ session_state'.analysis_timestamp = clock'
     /\ cit_page'.view \in {"detection_failed", "unexpected_error"} =>
          session_state' = session_state
     /\ Has(cit_page', "my_reports") =>
          cit_page'.my_reports.shown = HasAnalysis(session_state')
     /\ (Has(cit_page', "my_reports") /\ cit_page'.my_reports.shown) =>
          /\ cit_page'.my_reports.count = session_state'.current_analysis.count
          /\ cit_page'.my_reports.timestamp = session_state'.analysis_timestamp
          /\ cit_page'.my_reports.risk
               = (IF cit_page'.my_reports.count > 100 THEN "High"
                  ELSE IF cit_page'.my_reports.count > 50 THEN "Moderate" ELSE "Low")]_vars

\* the detector raises after a successful analysis: "My Reports" still shows
\* the 101 particles of the earlier analysis
C24_Witness ==
  /\ cit_page.view = "unexpected_error"
  /\ cit_page.my_reports.shown
  /\ cit_page.my_reports.count = 101
  /\ cit_page.my_reports.timestamp < clock

\* C27: the script run started by submitting the "Report to Authorities"
\* form shows the confirmation, and the form is offered exactly for counts
\* above 50.
C27_ReportConfirmed ==
  /\ cit_page.view = "results" => cit_page.form_offered = (cit_page.count > 50)
  /\ (Has(cit_page, "trigger") /\ cit_page.trigger = "Submit Report") =>
       cit_page.confirmation

\* the session-state entry of a stage and the stage's value in the run
SessionKey(i) ==
  CASE i = YOLO -> "yolo_result"
    [] i = RAMAN -> "raman_result"
    [] i = WQI -> "wqi_result"
    [] i = FORECAST -> "forecast_result"
    [] i = PINN -> "pinn_result"
    [] i = TWIN -> "twin_result"

\* the collaborator of stage i is invoked in this step and returns
Returned(i) ==
  /\ pc = AtStage("try", i)
  /\ calls'[i] = calls[i] + 1
  /\ exc' = NoException
  /\ pc' = AfterStage(i)

\* C25: the session-state entry of a stage is written, with the returned
\* value, in the step in which the stage's collaborator returns, and in no
\* other step of the pipeline; the step that substitutes a fallback leaves
\* the session state as it was.
C25_SessionEntries ==
  [][\A i \in Stages :
       /\ Returned(i) =>
            /\ Has(session_state', SessionKey(i))
            /\ session_state'[SessionKey(i)] = StageResult(i)'
            /\ ~(i \in warned')
       /\ Get(session_state', SessionKey(i), Unbound) # Get(session_state, SessionKey(i), Unbound)
            => Returned(i)
       /\ pc = AtStage("except", i) => session_state' = session_state]_vars

\* a report of a run whose scorer was replaced by the fallback 52.3, in a
\* session that still holds the 75.0 of an earlier run
C25_Witness ==
  /\ pc = At("report")
  /\ WQI \in warned
  /\ wqi_result.wqi_score = 523
  /\ Has(session_state, "wqi_result")
  /\ session_state.wqi_result.wqi_score = 750
  /\ Degraded(twin_result)
  /\ ~Degraded(session_state.twin_result)

\* the flag, false while the session has no entry
AdminFlag(ss) == Get(ss, "admin_authenticated", FALSE)

\* C26: a page shows administration content only when the flag is true; the
\* flag starts false, turns true only in the run of a login with "admin" and
\* "admin123", stays false on any other login, is false after Logout, and
\* keeps its value when the role changes.
C26_AdminGate ==
  [][/\ (app_page'.dashboard = "admin" /\ app_page'.content.view = "administration")
          => AdminFlag(session_state')
     /\ (app_page'.dashboard = "admin" /\ app_page'.content.view = "login")
          => ~AdminFlag(session_state')
     /\ (~AdminFlag(session_state) /\ AdminFlag(session_state'))
          => app_page'.content.trigger = <<"Login", "admin", "admin123">>
     /\ (app_page'.dashboard = "admin" /\ app_page'.content.trigger[1] = "Login"
           /\ app_page'.content.trigger # <<"Login", "admin", "admin123">>)
          => ~AdminFlag(session_state')
     /\ (app_page'.dashboard = "admin" /\ app_page'.content.trigger = <<"Logout">>)
          => ~AdminFlag(session_state')
     /\ role' # role => AdminFlag(session_state') = AdminFlag(session_state)]_vars

\* back on the admin panel after a visit to another role: the content is
\* shown without a new login
C26_Witness ==
  /\ role = Admin
  /\ app_page.dashboard = "admin"
  /\ app_page.content.view = "administration"
  /\ app_page.content.trigger = <<"role">>
  /\ session_state.admin_authenticated

\* C29: the "Advanced Analytics" tab is drawn without error for every
\* selection of locations, the empty one included, and its charts, trend
\* title and summary are those of the selected locations.
C29_AnalyticsRenders ==
  (app_page.dashboard = "government" /\ app_page.content.view = "analytics") =>
    /\ app_page.content.error = NoException
    /\ app_page.error = NoException
    /\ widgets.selected_locations # << >> =>
         /\ Len(app_page.content.charts) = 4
         /\ app_page.content.trend_title = widgets.selected_locations[1]
         /\ app_page.content.summary = widgets.selected_locations

====
